---- MODULE Spec2Model ----
(***************************************************************************)
(* Model of src/port_scanner.py: the concurrent scan engine run_scan with  *)
(* its thread pool and probes (scan_port), and the port specification      *)
(* parser parse_ports_input.                                               *)
(*                                                                         *)
(* Spec       one run_scan invocation: the calling thread, the worker      *)
(*            pool and the KeyboardInterrupt the user may raise.           *)
(* ParseSpec  one parse_ports_input call on a bounded input string.        *)
(***************************************************************************)
EXTENDS Integers, Sequences, FiniteSets, TLC

VARIABLES
    ports,        \* run_scan argument: the port list
    threads,      \* run_scan argument: requested worker count
    save_path,    \* run_scan argument: TRUE when a save path was given
    pc,           \* position of the thread that called run_scan
    how,          \* how run_scan left: "none", "empty", "interrupted", "finished"
    max_workers,  \* size of the ThreadPoolExecutor
    pool_created, \* TRUE once the ThreadPoolExecutor was constructed
    num_threads,  \* worker threads the pool has spawned
    work_queue,   \* the pool's FIFO of submitted, not yet started tasks
    submitted,    \* number of ports submitted so far
    task,         \* task index -> "none", "queued", "running", "connecting", "done"
    probe,        \* task index -> "none", then "ok" (connected) or "fault"
    future,       \* task index -> the future's content
    yielded,      \* futures as_completed has handed to the loop
    cur,          \* loop locals (future index, port, status) between the appends
    open_ports,   \* accumulator: open ports in arrival order
    results,      \* accumulator: one record per outcome in arrival order
    retval,       \* value run_scan returns
    interrupts,   \* KeyboardInterrupts delivered so far
    file,         \* content of the output file
    sockets,      \* task index -> sockets the probe created and holds open
    spec,         \* parse_ports_input argument
    parsed,       \* parse_ports_input result
    ppc,          \* position of the parse_ports_input call
    mpc,          \* position in the menus
    target,       \* the (hostname, ip) input_host returned
    call,         \* arguments of the run_scan call in progress
    rejected      \* TRUE when the last input was refused

scanVars == <<ports, threads, save_path, pc, how, max_workers, pool_created,
              num_threads, work_queue, submitted, task, probe, future, yielded,
              cur, open_ports, results, retval, interrupts, file, sockets>>
parseVars == <<spec, parsed, ppc>>
menuVars == <<mpc, target, call, rejected>>
vars == <<ports, threads, save_path, pc, how, max_workers, pool_created,
          num_threads, work_queue, submitted, task, probe, future, yielded,
          cur, open_ports, results, retval, interrupts, file, sockets,
          spec, parsed, ppc, mpc, target, call, rejected>>

----------------------------------------------------------------------------
(* Bounds *)

MaxPortNo == 3
MaxThreads == 2
MaxInterrupts == 2
MaxSpecLen == 5

----------------------------------------------------------------------------
(* Helpers *)

Min(a, b) == IF a < b THEN a ELSE b
Max(a, b) == IF a > b THEN a ELSE b
Range(s) == {s[i] : i \in DOMAIN s}

\* the ascending port lists over 1..MaxPortNo: what the callers of run_scan
\* pass (range(a, b + 1), COMMON_PORTS, the sorted parse result)
IsAscending(s) == \A i \in 1..(Len(s) - 1) : s[i] < s[i + 1]
PortLists == {s \in UNION {[1..n -> 1..MaxPortNo] : n \in 0..MaxPortNo} : IsAscending(s)}
ThreadChoices == (-1)..MaxThreads

Tasks == 1..Len(ports)
NoFuture == [state |-> "none", kind |-> "none", port |-> 0, is_open |-> FALSE]
NoCur == [future |-> 0, port |-> 0, status |-> "none"]
NoFile == [written |-> FALSE, failed |-> FALSE, rows |-> <<>>]
NoParse == [ok |-> FALSE, ports |-> <<>>]
NoSocket == [opened |-> 0, open |-> 0]
NoTarget == [host |-> "", ip |-> "None"]
NoCall == [ip |-> "None", ports |-> NoParse]

InFlight == {i \in DOMAIN task : task[i] \in {"running", "connecting"}}
Finished == {i \in DOMAIN future : future[i].state = "finished"}

----------------------------------------------------------------------------
(* scan_port *)

\* what can happen inside one probe: connect_ex returns 0 ("ok"), it returns
\* an error number, as it does for a refused, timed out or unreachable
\* connection ("errno"), or socket(), settimeout or connect_ex raises
\* ("exception")
ProbeFaults == {"ok", "errno", "exception"}

\* scan_port without its except clause: an exception leaves the probe
scan_port_no_except(port, f) ==
    IF f = "exception"
    THEN [state |-> "finished", kind |-> "raise", port |-> 0, is_open |-> FALSE]
    ELSE [state |-> "finished", kind |-> "return", port |-> port, is_open |-> (f = "ok")]

\* the result of scan_port(host_ip, port, timeout) when the probe met fault f:
\* connect_ex returning 0 gives (port, True), any other return value gives
\* (port, False), and an exception of socket() or connect_ex is caught
scan_port(port, f) ==
    [state |-> "finished", kind |-> "return", port |-> port, is_open |-> (f = "ok")]

----------------------------------------------------------------------------
(* run_scan *)

\* one worker per port, whatever threads says
MaxWorkersPerPort(t, total) == total

\* line 139 without max(1, threads)
MaxWorkersNoFloor(t, total) == Min(t, total)

\* line 139: max_workers = min(max(1, threads), total)
MaxWorkers(t, total) == Min(Max(1, t), total)

ScanInit ==
    /\ ports \in PortLists
    /\ threads \in ThreadChoices
    /\ save_path \in BOOLEAN
    /\ pc = "start"
    /\ how = "none"
    /\ max_workers = 0
    /\ pool_created = FALSE
    /\ num_threads = 0
    /\ work_queue = <<>>
    /\ submitted = 0
    /\ task = [i \in 1..Len(ports) |-> "none"]
    /\ probe = [i \in 1..Len(ports) |-> "none"]
    /\ future = [i \in 1..Len(ports) |-> NoFuture]
    /\ yielded = {}
    /\ cur = NoCur
    /\ open_ports = <<>>
    /\ results = <<>>
    /\ retval = <<>>
    /\ interrupts = 0
    /\ file = NoFile
    /\ sockets = [i \in 1..Len(ports) |-> NoSocket]

ParseIdle ==
    /\ spec = <<>>
    /\ parsed = NoParse
    /\ ppc = "idle"

MenuIdle ==
    /\ mpc = "idle"
    /\ target = NoTarget
    /\ call = NoCall
    /\ rejected = FALSE

Init == ScanInit /\ ParseIdle /\ MenuIdle

\* run_scan without the check of lines 129-131
RunScanStartNoEmptyCheck ==
    /\ pc = "start"
    /\ pc' = "submit"
    /\ max_workers' = MaxWorkers(threads, Len(ports))
    /\ pool_created' = TRUE
    /\ UNCHANGED <<ports, threads, save_path, how, retval, num_threads, work_queue,
                   submitted, task, probe, future, yielded, cur, open_ports,
                   results, interrupts, file>>
    /\ UNCHANGED sockets
    /\ UNCHANGED parseVars
    /\ UNCHANGED menuVars

\* lines 129-141: the empty check, the accumulators, the pool
RunScanStart ==
    /\ pc = "start"
    /\ IF Len(ports) = 0
       THEN /\ pc' = "returned"
            /\ how' = "empty"
            /\ retval' = <<>>
            /\ UNCHANGED <<max_workers, pool_created>>
       ELSE /\ pc' = "submit"
            /\ max_workers' = MaxWorkers(threads, Len(ports))
            /\ pool_created' = TRUE
            /\ UNCHANGED <<how, retval>>
    /\ UNCHANGED <<ports, threads, save_path, num_threads, work_queue, submitted,
                   task, probe, future, yielded, cur, open_ports, results,
                   interrupts, file>>
    /\ UNCHANGED sockets
    /\ UNCHANGED parseVars
    /\ UNCHANGED menuVars

\* line 142: ex.submit(scan_port, target_ip, p, timeout) for the next port;
\* the pool queues the task and spawns a worker while it has fewer than
\* max_workers (reusing a worker that went idle instead would change
\* num_threads only, never which queued task a free worker may take)
Submit ==
    /\ pc = "submit"
    /\ submitted < Len(ports)
    /\ LET i == submitted + 1 IN
        /\ submitted' = i
        /\ work_queue' = Append(work_queue, i)
        /\ task' = [task EXCEPT ![i] = "queued"]
        /\ future' = [future EXCEPT ![i] = [NoFuture EXCEPT !.state = "pending"]]
        /\ num_threads' = IF num_threads < max_workers THEN num_threads + 1
                          ELSE num_threads
        /\ pc' = IF i = Len(ports) THEN "loop" ELSE "submit"
    /\ UNCHANGED <<ports, threads, save_path, how, max_workers, pool_created,
                   probe, yielded, cur, open_ports, results, retval,
                   interrupts, file>>
    /\ UNCHANGED sockets
    /\ UNCHANGED parseVars
    /\ UNCHANGED menuVars

\* a pool worker takes the oldest queued task and calls scan_port
WorkerStart ==
    /\ pool_created
    /\ work_queue # <<>>
    /\ Cardinality(InFlight) < num_threads
    /\ task' = [task EXCEPT ![Head(work_queue)] = "running"]
    /\ work_queue' = Tail(work_queue)
    /\ UNCHANGED <<ports, threads, save_path, pc, how, max_workers, pool_created,
                   num_threads, submitted, probe, future, yielded, cur,
                   open_ports, results, retval, interrupts, file>>
    /\ UNCHANGED sockets
    /\ UNCHANGED parseVars
    /\ UNCHANGED menuVars

\* the worker stores what scan_port did in the task's future; probe keeps
\* whether the connect succeeded
SetFuture(i, f) ==
    /\ probe' = [probe EXCEPT ![i] = IF f = "ok" THEN "ok" ELSE "fault"]
    /\ future' = [future EXCEPT ![i] = scan_port(ports[i], f)]
    /\ task' = [task EXCEPT ![i] = "done"]

\* line 74: socket.socket(...) either raises or yields the probe's socket
ProbeSocket ==
    /\ \E i \in DOMAIN task :
        /\ task[i] = "running"
        /\ \/ /\ SetFuture(i, "exception")
              /\ UNCHANGED sockets
           \/ /\ task' = [task EXCEPT ![i] = "connecting"]
              /\ sockets' = [sockets EXCEPT ![i] = [opened |-> @.opened + 1,
                                                    open |-> @.open + 1]]
              /\ UNCHANGED <<probe, future>>
    /\ UNCHANGED <<ports, threads, save_path, pc, how, max_workers, pool_created,
                   num_threads, work_queue, submitted, yielded, cur,
                   open_ports, results, retval, interrupts, file>>
    /\ UNCHANGED parseVars
    /\ UNCHANGED menuVars

\* scan_port appending an open port to the shared list itself
ProbeConnectAppends ==
    /\ \E i \in DOMAIN task :
        /\ task[i] = "connecting"
        /\ \E f \in ProbeFaults :
            /\ SetFuture(i, f)
            /\ open_ports' = IF f = "ok" THEN Append(open_ports, ports[i])
                             ELSE open_ports
        /\ sockets' = [sockets EXCEPT ![i].open = @ - 1]
    /\ UNCHANGED <<ports, threads, save_path, pc, how, max_workers, pool_created,
                   num_threads, work_queue, submitted, yielded, cur,
                   results, retval, interrupts, file>>
    /\ UNCHANGED parseVars
    /\ UNCHANGED menuVars

\* scan_port closing its socket by hand after connect_ex instead of in a with
\* block: an exception skips the close
ProbeConnectLeak ==
    /\ \E i \in DOMAIN task :
        /\ task[i] = "connecting"
        /\ \E f \in ProbeFaults :
            /\ SetFuture(i, f)
            /\ sockets' = IF f = "exception" THEN sockets
                          ELSE [sockets EXCEPT ![i].open = @ - 1]
    /\ UNCHANGED <<ports, threads, save_path, pc, how, max_workers, pool_created,
                   num_threads, work_queue, submitted, yielded, cur,
                   open_ports, results, retval, interrupts, file>>
    /\ UNCHANGED parseVars
    /\ UNCHANGED menuVars

\* lines 75-79: connect_ex returns or raises, the with block closes the socket
ProbeConnect ==
    /\ \E i \in DOMAIN task :
        /\ task[i] = "connecting"
        /\ \E f \in ProbeFaults : SetFuture(i, f)
        /\ sockets' = [sockets EXCEPT ![i].open = @ - 1]
    /\ UNCHANGED <<ports, threads, save_path, pc, how, max_workers, pool_created,
                   num_threads, work_queue, submitted, yielded, cur,
                   open_ports, results, retval, interrupts, file>>
    /\ UNCHANGED parseVars
    /\ UNCHANGED menuVars

\* the loop body reading the port of the last submission instead of the
\* future's own
NextCompletedStalePort ==
    /\ pc = "loop"
    /\ \E i \in Finished \ yielded :
        LET port == ports[Len(ports)]
            status == IF future[i].kind = "return" /\ future[i].is_open
                      THEN "open" ELSE "closed"
        IN  /\ yielded' = yielded \union {i}
            /\ cur' = [future |-> i, port |-> port, status |-> status]
            /\ open_ports' = IF status = "open" THEN Append(open_ports, port)
                             ELSE open_ports
    /\ pc' = "record"
    /\ UNCHANGED <<ports, threads, save_path, how, max_workers, pool_created,
                   num_threads, work_queue, submitted, task, probe, future,
                   results, retval, interrupts, file>>
    /\ UNCHANGED sockets
    /\ UNCHANGED parseVars
    /\ UNCHANGED menuVars

\* the loop body without the if of line 153: every port is appended
NextCompletedNoStatusCheck ==
    /\ pc = "loop"
    /\ \E i \in Finished \ yielded :
        LET p == ports[i]
            port == IF future[i].kind = "return" THEN future[i].port ELSE p
            status == IF future[i].kind = "return" /\ future[i].is_open
                      THEN "open" ELSE "closed"
        IN  /\ yielded' = yielded \union {i}
            /\ cur' = [future |-> i, port |-> port, status |-> status]
            /\ open_ports' = Append(open_ports, port)
    /\ pc' = "record"
    /\ UNCHANGED <<ports, threads, save_path, how, max_workers, pool_created,
                   num_threads, work_queue, submitted, task, probe, future,
                   results, retval, interrupts, file>>
    /\ UNCHANGED sockets
    /\ UNCHANGED parseVars
    /\ UNCHANGED menuVars

\* lines 144-155: as_completed hands over a finished future not handed over
\* before; the loop reads its result and appends an open port
NextCompleted ==
    /\ pc = "loop"
    /\ \E i \in Finished \ yielded :
        LET p == ports[i]
            port == IF future[i].kind = "return" THEN future[i].port ELSE p
            status == IF future[i].kind = "return" /\ future[i].is_open
                      THEN "open" ELSE "closed"
        IN  /\ yielded' = yielded \union {i}
            /\ cur' = [future |-> i, port |-> port, status |-> status]
            /\ open_ports' = IF status = "open" THEN Append(open_ports, port)
                             ELSE open_ports
    /\ pc' = "record"
    /\ UNCHANGED <<ports, threads, save_path, how, max_workers, pool_created,
                   num_threads, work_queue, submitted, task, probe, future,
                   results, retval, interrupts, file>>
    /\ UNCHANGED sockets
    /\ UNCHANGED parseVars
    /\ UNCHANGED menuVars

\* the append of lines 157-163 moved under the if of line 153
RecordOpenOnly ==
    /\ pc = "record"
    /\ results' = IF cur.status = "open"
                  THEN Append(results, [port |-> cur.port, status |-> cur.status])
                  ELSE results
    /\ cur' = NoCur
    /\ pc' = "loop"
    /\ UNCHANGED <<ports, threads, save_path, how, max_workers, pool_created,
                   num_threads, work_queue, submitted, task, probe, future,
                   yielded, open_ports, retval, interrupts, file>>
    /\ UNCHANGED sockets
    /\ UNCHANGED parseVars
    /\ UNCHANGED menuVars

\* lines 157-163: results.append({... "port": port, "status": status ...})
RecordResult ==
    /\ pc = "record"
    /\ results' = Append(results, [port |-> cur.port, status |-> cur.status])
    /\ cur' = NoCur
    /\ pc' = "loop"
    /\ UNCHANGED <<ports, threads, save_path, how, max_workers, pool_created,
                   num_threads, work_queue, submitted, task, probe, future,
                   yielded, open_ports, retval, interrupts, file>>
    /\ UNCHANGED sockets
    /\ UNCHANGED parseVars
    /\ UNCHANGED menuVars

\* line 144: as_completed is exhausted, the for loop ends and the with block
\* is left
LoopEnd ==
    /\ pc = "loop"
    /\ yielded = Tasks
    /\ pc' = "drain_ok"
    /\ UNCHANGED <<ports, threads, save_path, how, max_workers, pool_created,
                   num_threads, work_queue, submitted, task, probe, future,
                   yielded, cur, open_ports, results, retval, interrupts, file>>
    /\ UNCHANGED sockets
    /\ UNCHANGED parseVars
    /\ UNCHANGED menuVars

\* KeyboardInterrupt while line 142 submits: outside the try of line 143, the
\* exception leaves the with block
InterruptSubmit ==
    /\ pc = "submit"
    /\ interrupts < MaxInterrupts
    /\ interrupts' = interrupts + 1
    /\ pc' = "drain_exc"
    /\ UNCHANGED <<ports, threads, save_path, how, max_workers, pool_created,
                   num_threads, work_queue, submitted, task, probe, future,
                   yielded, cur, open_ports, results, retval, file>>
    /\ UNCHANGED sockets
    /\ UNCHANGED parseVars
    /\ UNCHANGED menuVars

\* lines 164-166 writing what was collected before they return
InterruptLoopSaves ==
    /\ pc \in {"loop", "record"}
    /\ interrupts < MaxInterrupts
    /\ interrupts' = interrupts + 1
    /\ retval' = open_ports
    /\ pc' = "drain_ret"
    /\ file' = IF save_path
               THEN [written |-> TRUE, failed |-> FALSE, rows |-> results]
               ELSE file
    /\ UNCHANGED <<ports, threads, save_path, how, max_workers, pool_created,
                   num_threads, work_queue, submitted, task, probe, future,
                   yielded, cur, open_ports, results>>
    /\ UNCHANGED sockets
    /\ UNCHANGED parseVars
    /\ UNCHANGED menuVars

\* lines 164-166: KeyboardInterrupt inside the try: return open_ports
InterruptLoop ==
    /\ pc \in {"loop", "record"}
    /\ interrupts < MaxInterrupts
    /\ interrupts' = interrupts + 1
    /\ retval' = open_ports
    /\ pc' = "drain_ret"
    /\ UNCHANGED <<ports, threads, save_path, how, max_workers, pool_created,
                   num_threads, work_queue, submitted, task, probe, future,
                   yielded, cur, open_ports, results, file>>
    /\ UNCHANGED sockets
    /\ UNCHANGED parseVars
    /\ UNCHANGED menuVars

\* KeyboardInterrupt while the with block's exit joins the workers, or in
\* lines 168-193 (except Exception does not catch it): it leaves run_scan
InterruptOutside ==
    /\ pc \in {"drain_ok", "drain_ret", "drain_exc", "save"}
    /\ interrupts < MaxInterrupts
    /\ interrupts' = interrupts + 1
    /\ pc' = "raised"
    /\ UNCHANGED <<ports, threads, save_path, how, max_workers, pool_created,
                   num_threads, work_queue, submitted, task, probe, future,
                   yielded, cur, open_ports, results, retval, file>>
    /\ UNCHANGED sockets
    /\ UNCHANGED parseVars
    /\ UNCHANGED menuVars

\* line 141, leaving the with block: shutdown(wait=True) returns once the
\* workers ran every submitted task
ShutdownJoin ==
    /\ pc \in {"drain_ok", "drain_ret", "drain_exc"}
    /\ work_queue = <<>>
    /\ InFlight = {}
    /\ pc' = CASE pc = "drain_ok" -> "save"
               [] pc = "drain_ret" -> "returned"
               [] pc = "drain_exc" -> "raised"
    /\ how' = IF pc = "drain_ret" THEN "interrupted" ELSE how
    /\ UNCHANGED <<ports, threads, save_path, max_workers, pool_created,
                   num_threads, work_queue, submitted, task, probe, future,
                   yielded, cur, open_ports, results, retval, interrupts, file>>
    /\ UNCHANGED sockets
    /\ UNCHANGED parseVars
    /\ UNCHANGED menuVars

\* lines 174-191: the records of results written in order; a write that fails
\* (line 190) leaves the first k of them, k = 0 when open() itself fails
WriteFile(ok, k) ==
    IF ok THEN [written |-> TRUE, failed |-> FALSE, rows |-> results]
    ELSE [written |-> FALSE, failed |-> TRUE, rows |-> SubSeq(results, 1, k)]

\* lines 168-193 without the try of line 177: a failing write leaves run_scan
\* as an exception
SaveAndReturnFailRaises ==
    /\ pc = "save"
    /\ \/ /\ save_path
          /\ \E k \in 0..(Len(results) - 1) : file' = WriteFile(FALSE, k)
          /\ pc' = "raised"
          /\ UNCHANGED <<retval, how>>
       \/ /\ file' = IF save_path THEN WriteFile(TRUE, 0) ELSE file
          /\ retval' = open_ports
          /\ how' = "finished"
          /\ pc' = "returned"
    /\ UNCHANGED <<ports, threads, save_path, max_workers, pool_created,
                   num_threads, work_queue, submitted, task, probe, future,
                   yielded, cur, open_ports, results, interrupts>>
    /\ UNCHANGED sockets
    /\ UNCHANGED parseVars
    /\ UNCHANGED menuVars

\* lines 168-193: the summary, the optional save (which may fail) and the
\* return
SaveAndReturn ==
    /\ pc = "save"
    /\ IF save_path
       THEN \/ file' = WriteFile(TRUE, 0)
            \/ \E k \in 0..(Len(results) - 1) : file' = WriteFile(FALSE, k)
       ELSE file' = file
    /\ retval' = open_ports
    /\ how' = "finished"
    /\ pc' = "returned"
    /\ UNCHANGED <<ports, threads, save_path, max_workers, pool_created,
                   num_threads, work_queue, submitted, task, probe, future,
                   yielded, cur, open_ports, results, interrupts>>
    /\ UNCHANGED sockets
    /\ UNCHANGED parseVars
    /\ UNCHANGED menuVars

Next ==
    \/ RunScanStart
    \/ Submit
    \/ WorkerStart
    \/ ProbeSocket
    \/ ProbeConnect
    \/ NextCompleted
    \/ RecordResult
    \/ LoopEnd
    \/ InterruptSubmit
    \/ InterruptLoop
    \/ InterruptOutside
    \/ ShutdownJoin
    \/ SaveAndReturn

Spec == Init /\ [][Next]_vars

\* run_scan when no KeyboardInterrupt is raised: the calling thread and the
\* workers keep running, and every connect attempt ends (it is bounded by the
\* timeout of line 75)
LiveNext ==
    \/ RunScanStart
    \/ Submit
    \/ WorkerStart
    \/ ProbeSocket
    \/ ProbeConnect
    \/ NextCompleted
    \/ RecordResult
    \/ LoopEnd
    \/ ShutdownJoin
    \/ SaveAndReturn

LiveSpec ==
    /\ Init
    /\ [][LiveNext]_vars
    /\ WF_vars(RunScanStart)
    /\ WF_vars(Submit)
    /\ WF_vars(WorkerStart)
    /\ WF_vars(ProbeSocket)
    /\ WF_vars(ProbeConnect)
    /\ WF_vars(NextCompleted)
    /\ WF_vars(RecordResult)
    /\ WF_vars(LoopEnd)
    /\ WF_vars(ShutdownJoin)
    /\ WF_vars(SaveAndReturn)

TypeOK ==
    /\ pc \in {"idle", "start", "submit", "loop", "record", "drain_ok",
               "drain_ret", "drain_exc", "save", "returned", "raised"}
    /\ how \in {"none", "empty", "interrupted", "finished"}
    /\ submitted \in 0..Len(ports)
    /\ num_threads \in 0..Len(ports)
    /\ yielded \subseteq Finished

----------------------------------------------------------------------------
(* parse_ports_input *)

\* a string is a sequence of one-character strings
Digits == {"0", "1", "2", "3", "4", "5", "6", "7", "8", "9"}
DigitVal(c) ==
    CASE c = "0" -> 0 [] c = "1" -> 1 [] c = "2" -> 2 [] c = "3" -> 3
      [] c = "4" -> 4 [] c = "5" -> 5 [] c = "6" -> 6 [] c = "7" -> 7
      [] c = "8" -> 8 [] c = "9" -> 9

\* the characters the bounded inputs are made of
Chars == {"0", "1", "2", ",", "-", " ", "a"}

\* str.strip(): whitespace removed at both ends
RECURSIVE lstrip(_)
lstrip(s) == IF s # <<>> /\ Head(s) = " " THEN lstrip(Tail(s)) ELSE s
RECURSIVE rstrip(_)
rstrip(s) == IF s # <<>> /\ s[Len(s)] = " " THEN rstrip(SubSeq(s, 1, Len(s) - 1)) ELSE s
strip(s) == rstrip(lstrip(s))

\* position of the first c in s, 0 when there is none
IndexOf(s, c) ==
    IF \E i \in DOMAIN s : s[i] = c
    THEN CHOOSE i \in DOMAIN s : s[i] = c /\ \A j \in 1..(i - 1) : s[j] # c
    ELSE 0

\* str.split(sep)
RECURSIVE split(_, _)
split(s, sep) ==
    LET k == IndexOf(s, sep) IN
    IF k = 0 THEN <<s>>
    ELSE <<SubSeq(s, 1, k - 1)>> \o split(SubSeq(s, k + 1, Len(s)), sep)

\* str.split(sep, 1) of a string that contains sep
split1(s, sep) ==
    LET k == IndexOf(s, sep) IN <<SubSeq(s, 1, k - 1), SubSeq(s, k + 1, Len(s))>>

RECURSIVE DigitsValue(_)
DigitsValue(s) ==
    IF s = <<>> THEN 0
    ELSE 10 * DigitsValue(SubSeq(s, 1, Len(s) - 1)) + DigitVal(s[Len(s)])

\* int(s): surrounding whitespace, an optional sign, then digits only;
\* ok is FALSE where int raises ValueError
int(s) ==
    LET t == strip(s)
        signed == t # <<>> /\ Head(t) \in {"-", "+"}
        body == IF signed THEN Tail(t) ELSE t
        ok == body # <<>> /\ \A i \in DOMAIN body : body[i] \in Digits
        v == IF ok THEN DigitsValue(body) ELSE 0
    IN  [ok |-> ok, val |-> IF signed /\ Head(t) = "-" THEN 0 - v ELSE v]

SetMin(S) == CHOOSE x \in S : \A y \in S : x <= y
SetMax(S) == 0 - SetMin({0 - x : x \in S})

RECURSIVE SortRange(_, _, _)
SortRange(S, lo, hi) ==
    IF S = {} THEN <<>>
    ELSE IF lo = hi THEN <<lo>>
    ELSE LET mid == (lo + hi) \div 2
         IN  SortRange({x \in S : x <= mid}, lo, mid)
               \o SortRange({x \in S : x > mid}, mid + 1, hi)

\* sorted(ports, reverse=True)
sorted_reverse(S) ==
    IF S = {} THEN <<>>
    ELSE LET neg == {0 - x : x \in S}
             r == SortRange(neg, SetMin(neg), SetMax(neg))
         IN  [i \in DOMAIN r |-> 0 - r[i]]

\* sorted(ports) of a set of integers: its elements in ascending order
sorted(S) == IF S = {} THEN <<>> ELSE SortRange(S, SetMin(S), SetMax(S))

\* lines 208-226: one non-empty stripped part; ok is FALSE where the function
\* returns None
BadPart == [ok |-> FALSE, ports |-> {}]
\* line 214 with range(a, b): the upper end left out
parse_part_exclusive_end(part) ==
    IF "-" \in Range(part)
    THEN LET ab == split1(part, "-")
             a == int(ab[1])
             b == int(ab[2])
         IN  IF ~a.ok \/ ~b.ok THEN BadPart
             ELSE IF a.val < 1 \/ b.val > 65535 \/ a.val > b.val THEN BadPart
             ELSE [ok |-> TRUE, ports |-> a.val..(b.val - 1)]
    ELSE LET p == int(part)
         IN  IF ~p.ok THEN BadPart
             ELSE IF 1 <= p.val /\ p.val <= 65535
                  THEN [ok |-> TRUE, ports |-> {p.val}]
                  ELSE BadPart

\* line 212 without its a > b test
parse_part_no_order_check(part) ==
    IF "-" \in Range(part)
    THEN LET ab == split1(part, "-")
             a == int(ab[1])
             b == int(ab[2])
         IN  IF ~a.ok \/ ~b.ok THEN BadPart
             ELSE IF a.val < 1 \/ b.val > 65535 THEN BadPart
             ELSE [ok |-> TRUE, ports |-> a.val..b.val]
    ELSE LET p == int(part)
         IN  IF ~p.ok THEN BadPart
             ELSE IF 1 <= p.val /\ p.val <= 65535
                  THEN [ok |-> TRUE, ports |-> {p.val}]
                  ELSE BadPart

parse_part(part) ==
    IF "-" \in Range(part)
    THEN LET ab == split1(part, "-")
             a == int(ab[1])
             b == int(ab[2])
         IN  IF ~a.ok \/ ~b.ok THEN BadPart
             ELSE IF a.val < 1 \/ b.val > 65535 \/ a.val > b.val THEN BadPart
             ELSE [ok |-> TRUE, ports |-> a.val..b.val]
    ELSE LET p == int(part)
         IN  IF ~p.ok THEN BadPart
             ELSE IF 1 <= p.val /\ p.val <= 65535
                  THEN [ok |-> TRUE, ports |-> {p.val}]
                  ELSE BadPart

\* lines 204-227: the loop over spec.split(","), from part i with the set acc
RECURSIVE parse_loop(_, _, _)
parse_loop(parts, i, acc) ==
    IF i > Len(parts) THEN [ok |-> TRUE, ports |-> sorted(acc)]
    ELSE LET part == strip(parts[i]) IN
         IF part = <<>> THEN parse_loop(parts, i + 1, acc)
         ELSE LET r == parse_part(part) IN
              IF ~r.ok THEN NoParse
              ELSE parse_loop(parts, i + 1, acc \union r.ports)

\* lines 196-227
parse_ports_input(s) ==
    IF s = <<>> THEN NoParse ELSE parse_loop(split(s, ","), 1, {})

\* run_scan is not running
ScanIdle ==
    /\ ports = <<>>
    /\ threads = 1
    /\ save_path = FALSE
    /\ pc = "idle"
    /\ how = "none"
    /\ max_workers = 0
    /\ pool_created = FALSE
    /\ num_threads = 0
    /\ work_queue = <<>>
    /\ submitted = 0
    /\ task = <<>>
    /\ probe = <<>>
    /\ future = <<>>
    /\ yielded = {}
    /\ cur = NoCur
    /\ open_ports = <<>>
    /\ results = <<>>
    /\ retval = <<>>
    /\ interrupts = 0
    /\ file = NoFile
    /\ sockets = <<>>

\* inputs for the limits of the port range, beyond the bounded strings
ExtraSpecs ==
    { <<"6", "5", "5", "3", "5">>,
      <<"6", "5", "5", "3", "6">>,
      <<"6", "5", "5", "3", "4", "-", "6", "5", "5", "3", "5">>,
      <<"6", "5", "5", "3", "4", "-", "6", "5", "5", "3", "6">>,
      <<"1", ",", "7", "0", "0", "0", "0">>,
      <<"7", "0", "0", "0", "0", ",", "1">>,
      <<"2", "2", ",", "8", "0", ",", "8", "0", "0", "0", "-", "8", "0", "0", "2">> }

SpecInputs == UNION {[1..n -> Chars] : n \in 0..MaxSpecLen} \union ExtraSpecs

ParseInit ==
    /\ ScanIdle
    /\ MenuIdle
    /\ spec \in SpecInputs
    /\ parsed = NoParse
    /\ ppc = "input"

ParsePortsInput ==
    /\ ppc = "input"
    /\ parsed' = parse_ports_input(spec)
    /\ ppc' = "done"
    /\ UNCHANGED spec
    /\ UNCHANGED scanVars
    /\ UNCHANGED menuVars

ParseNext == ParsePortsInput

ParseSpec == ParseInit /\ [][ParseNext]_vars

----------------------------------------------------------------------------
(* Properties of run_scan (checked under Spec) *)

NaturalFinish == pc = "returned" /\ how = "finished"
Interrupted == pc = "returned" /\ how = "interrupted"
ResultPorts == {results[k].port : k \in DOMAIN results}
OpenRecorded == {results[k].port : k \in {j \in DOMAIN results : results[j].status = "open"}}
NoDuplicates(s) == \A i, j \in DOMAIN s : i # j => s[i] # s[j]

\* C1: on natural finish run_scan returns the ascending sorted list of
\* exactly the ports whose recorded outcome is "open", whatever the
\* completion order was.
C1_ReturnsSortedOpenPorts ==
    NaturalFinish => retval = sorted(OpenRecorded)

\* C2: at every moment the number of probes that started and did not finish
\* is at most the pool size min(max(1, threads), |ports|), which for a
\* concurrency of at least 1 is min(concurrency, |ports|).
C2_InFlightBounded ==
    /\ Cardinality(InFlight) <= Min(Max(1, threads), Len(ports))
    /\ threads >= 1 => Cardinality(InFlight) <= Min(threads, Len(ports))

\* the bound bites: as many probes in flight as threads allows, with fewer
\* threads than ports and a task waiting in the queue
C2_Witness ==
    /\ threads >= 2
    /\ threads < Len(ports)
    /\ Cardinality(InFlight) = threads
    /\ work_queue # <<>>

\* C3: when run_scan finishes without cancellation the outcome sequence holds
\* exactly one outcome for each submitted port, carrying that port's number
\* and the status of that port's own probe.
C3_OneOutcomePerPort ==
    NaturalFinish =>
        /\ Len(results) = Len(ports)
        /\ \A i \in DOMAIN ports :
               /\ Cardinality({k \in DOMAIN results : results[k].port = ports[i]}) = 1
               /\ \A k \in DOMAIN results :
                      results[k].port = ports[i] =>
                          (results[k].status = "open") = (probe[i] = "ok")

\* a natural finish of three or more ports whose outcomes arrived out of
\* submission order
C3_Witness ==
    /\ NaturalFinish
    /\ Len(ports) >= 3
    /\ Len(results) = Len(ports)
    /\ results[1].port > results[2].port

\* C4: a report returned after a cancellation that came when at least one
\* but not all outcomes had arrived concerns a strict subset of the submitted
\* ports and names no port twice.
C4_PartialReportStrictSubset ==
    (Interrupted /\ Len(results) >= 1 /\ Len(results) < Len(ports)) =>
        /\ ResultPorts \subseteq Range(ports)
        /\ ResultPorts # Range(ports)
        /\ NoDuplicates(results)
        /\ NoDuplicates(retval)
        /\ Range(retval) \subseteq Range(ports)

\* a cancelled scan returning with two of at least three outcomes recorded
C4_Witness ==
    /\ Interrupted
    /\ Len(results) = 2
    /\ Len(ports) >= 3
    /\ Len(retval) >= 1

\* C5: once cancellation is signalled no probe that had not started is
\* started, and the outcomes collected do not change.
C5_NoProbeStartsAfterCancel ==
    [][interrupts > 0 =>
          /\ \A i \in DOMAIN task : task[i] = "queued" => task'[i] = "queued"
          /\ results' = results]_vars

\* C6: run_scan never propagates an exception to its caller, wherever the
\* cancellation signal arrives, and a scan cancelled before any outcome
\* arrived returns the empty report of a scan of zero ports.
C6_NeverRaises ==
    /\ pc # "raised"
    /\ (Interrupted /\ yielded = {}) => retval = <<>>

\* C7: scan_port is total: every finished probe returned (port, is_open) for
\* its own port with is_open true exactly when the connect succeeded, no
\* future holds an exception, and every recorded outcome is that of the
\* port's own probe.
C7_ScanPortTotal ==
    /\ \A i \in Finished :
           /\ future[i].kind = "return"
           /\ future[i].port = ports[i]
           /\ future[i].is_open = (probe[i] = "ok")
    /\ \A k \in DOMAIN results :
           \E i \in DOMAIN ports :
               /\ ports[i] = results[k].port
               /\ (results[k].status = "open") = (probe[i] = "ok")

\* a scan that finished although socket() raised in one probe, with another
\* port found open
C7_Witness ==
    /\ NaturalFinish
    /\ \E i, j \in DOMAIN ports :
           /\ probe[i] = "fault"
           /\ sockets[i].opened = 0
           /\ probe[j] = "ok"
           /\ retval = <<ports[j]>>

\* C8: run_scan of an empty port collection returns the empty result at
\* once: no pool is created, no probe runs, no outcome is recorded.
C8_EmptyPortsNoPool ==
    Len(ports) = 0 =>
        /\ pc \in {"start", "returned"}
        /\ ~pool_created
        /\ num_threads = 0
        /\ work_queue = <<>>
        /\ results = <<>>
        /\ open_ports = <<>>
        /\ ~file.written
        /\ pc = "returned" => (how = "empty" /\ retval = <<>>)

\* the scan of zero ports has returned
C8_Witness ==
    /\ Len(ports) = 0
    /\ pc = "returned"
    /\ how = "empty"

----------------------------------------------------------------------------
(* Properties of parse_ports_input (checked under ParseSpec) *)

\* the tokens of the specification: its comma-separated parts, stripped
Tokens == LET parts == split(spec, ",") IN [i \in DOMAIN parts |-> strip(parts[i])]

\* a single integer n with 1 <= n <= 65535
ValidSingle(t) ==
    /\ "-" \notin Range(t)
    /\ int(t).ok
    /\ int(t).val \in 1..65535

\* a range a-b with 1 <= a <= b <= 65535
ValidRange(t) ==
    /\ "-" \in Range(t)
    /\ LET ab == split1(t, "-") IN
           /\ int(ab[1]).ok
           /\ int(ab[2]).ok
           /\ int(ab[1]).val \in 1..65535
           /\ int(ab[2]).val \in 1..65535
           /\ int(ab[1]).val <= int(ab[2]).val

\* a token that is present and is neither: malformed, out of range or inverted
BadToken(t) == t # <<>> /\ ~ValidSingle(t) /\ ~ValidRange(t)

\* C9: every accepted specification yields a strictly ascending sequence
\* (hence without duplicates) of ports p with 1 <= p <= 65535.
C9_ParsedAscendingInRange ==
    (ppc = "done" /\ parsed.ok) =>
        /\ \A i \in DOMAIN parsed.ports : parsed.ports[i] \in 1..65535
        /\ \A i \in 1..(Len(parsed.ports) - 1) : parsed.ports[i] < parsed.ports[i + 1]

\* "2,1,2" is accepted: out of order and with a duplicate in the input
C9_Witness ==
    /\ ppc = "done"
    /\ spec = <<"2", ",", "1", ",", "2">>
    /\ parsed = [ok |-> TRUE, ports |-> <<1, 2>>]

\* C10: one malformed, out-of-range or inverted token rejects the whole
\* specification (None, no partial list), whatever the other tokens are and
\* wherever the bad token stands.
C10_BadTokenRejectsAll ==
    (ppc = "done" /\ \E k \in DOMAIN Tokens : BadToken(Tokens[k])) =>
        parsed = NoParse

\* "1,2-1": a valid token followed by an inverted range is rejected
C10_Witness ==
    /\ ppc = "done"
    /\ spec = <<"1", ",", "2", "-", "1">>
    /\ ~BadToken(Tokens[1])
    /\ BadToken(Tokens[2])
    /\ parsed = NoParse

\* the ports a token denotes: a single integer n denotes {n}, a range a-b
\* denotes {a..b} inclusive
Denoted(t) ==
    IF ValidSingle(t) THEN {int(t).val}
    ELSE IF ValidRange(t)
         THEN LET ab == split1(t, "-") IN int(ab[1]).val..int(ab[2]).val
         ELSE {}

\* C11: for every accepted specification the set of ports returned equals
\* exactly the union of the ports its tokens denote; "22,80,8000-8002" yields
\* [22, 80, 8000, 8001, 8002].
C11_ParsedEqualsUnionOfTokens ==
    (ppc = "done" /\ parsed.ok) =>
        /\ Range(parsed.ports) = UNION {Denoted(Tokens[k]) : k \in DOMAIN Tokens}
        /\ spec = <<"2", "2", ",", "8", "0", ",", "8", "0", "0", "0", "-", "8", "0", "0", "2">>
               => parsed.ports = <<22, 80, 8000, 8001, 8002>>

\* "22,80,8000-8002" was parsed
C11_Witness ==
    /\ ppc = "done"
    /\ spec = <<"2", "2", ",", "8", "0", ",", "8", "0", "0", "0", "-", "8", "0", "0", "2">>
    /\ parsed.ok
    /\ Len(parsed.ports) = 5

\* C15: parse_ports_input never returns an empty port list: an input that
\* denotes no port at all is rejected.
C15_NeverEmptyList ==
    (ppc = "done" /\ parsed.ok) => parsed.ports # <<>>

----------------------------------------------------------------------------
(* Properties of the probes' sockets (checked under Spec) *)

\* C12 as stated: every scan_port invocation that returned opened exactly one
\* socket and closed it, and no returned probe holds an open socket.
C12_ExactlyOneSocketPerProbe ==
    \A i \in DOMAIN task :
        task[i] = "done" => sockets[i] = [opened |-> 1, open |-> 0]

\* C12: every scan_port invocation opens at most one socket, exactly one
\* unless the creation of the socket itself raises, and the socket it opened
\* is closed by the time it returns on every exit path; no probe that has
\* returned or not started holds an open socket.
C12_SocketClosedOnReturn ==
    \A i \in DOMAIN task :
        /\ sockets[i].opened <= 1
        /\ sockets[i].open <= sockets[i].opened
        /\ sockets[i].open = 1 <=> task[i] = "connecting"
        /\ task[i] = "done" => sockets[i].open = 0
        /\ (task[i] = "done" /\ probe[i] = "ok") => sockets[i].opened = 1

\* two probes returned without a connection: one had its socket and closed
\* it, the other never got one
C12_Witness ==
    \E i, j \in DOMAIN task :
        /\ task[i] = "done" /\ probe[i] = "fault"
        /\ sockets[i] = [opened |-> 1, open |-> 0]
        /\ task[j] = "done" /\ probe[j] = "fault"
        /\ sockets[j] = [opened |-> 0, open |-> 0]

----------------------------------------------------------------------------
(* Properties of persistence (checked under Spec) *)

\* the ports of the outcomes recorded as open, in arrival order
RECURSIVE OpenInArrivalOrder(_)
OpenInArrivalOrder(rs) ==
    IF rs = <<>> THEN <<>>
    ELSE LET rest == OpenInArrivalOrder(SubSeq(rs, 1, Len(rs) - 1))
             last == rs[Len(rs)]
         IN  IF last.status = "open" THEN Append(rest, last.port) ELSE rest

\* C14: what run_scan returns on natural finish is determined by the outcomes
\* and their arrival order alone, whether the save succeeded, failed or was
\* not requested, and a failed write is not propagated: run_scan still
\* returns.
C14_WriteFailureKeepsResult ==
    /\ NaturalFinish => retval = OpenInArrivalOrder(results)
    /\ file.failed => (NaturalFinish /\ retval = OpenInArrivalOrder(results))

\* the write failed and run_scan returned the open ports all the same
C14_Witness ==
    /\ NaturalFinish
    /\ save_path
    /\ file.failed
    /\ Len(retval) >= 1

\* C19 as stated: an interrupted run_scan writes nothing, and a natural
\* finish with save_path writes exactly one record per recorded outcome, in
\* arrival order.
C19_SaveOnlyOnNaturalFinish ==
    /\ Interrupted => file = NoFile
    /\ (NaturalFinish /\ save_path) => file.rows = results

\* C19: an interrupted run_scan returns the open ports collected so far and
\* writes nothing, even with save_path; a natural finish with save_path
\* writes, unless the write fails, exactly one record per recorded outcome in
\* arrival order.
C19_SaveSkippedOnInterrupt ==
    /\ pc \in {"drain_ret", "drain_exc"} => file = NoFile
    /\ Interrupted => (file = NoFile /\ retval = open_ports)
    /\ (NaturalFinish /\ save_path /\ ~file.failed) =>
           (file.written /\ file.rows = results)
    /\ ~save_path => file = NoFile

\* a scan with a save path, interrupted after outcomes were recorded, has
\* returned and the file was not written
C19_Witness ==
    /\ Interrupted
    /\ save_path
    /\ Len(results) >= 1
    /\ Len(retval) >= 1
    /\ file = NoFile

----------------------------------------------------------------------------
(* Properties of the accumulators (checked under Spec) *)

\* s2 is s, or s with one element appended
SameOrAppended(s, s2) ==
    \/ s2 = s
    \/ Len(s2) = Len(s) + 1 /\ SubSeq(s2, 1, Len(s)) = s

\* C16: every step leaves each accumulator unchanged or appends one element
\* to it, so that no recorded outcome is modified or removed, and at every
\* iteration boundary of the aggregation loop the open-port collection holds
\* exactly the ports of the outcomes recorded so far with status "open".
C16_AccumulatorsOnlyGrow ==
    [][/\ SameOrAppended(results, results')
       /\ SameOrAppended(open_ports, open_ports')
       /\ pc' = "loop" => open_ports' = OpenInArrivalOrder(results')]_vars

\* an iteration boundary with open and closed outcomes recorded
C16_Witness ==
    /\ pc = "loop"
    /\ Len(results) >= 2
    /\ Len(open_ports) >= 1
    /\ Len(open_ports) < Len(results)

\* a step of a pool worker: a task leaves the queue or moves on in its probe
WorkerStep ==
    \E i \in DOMAIN task :
        /\ task[i] \in {"queued", "running", "connecting"}
        /\ task'[i] # task[i]

\* C17: the accumulators are written by the thread that called run_scan
\* only: no step of a worker changes them, and every change happens in a step
\* of the aggregation loop.
C17_SingleAggregator ==
    [][/\ WorkerStep => UNCHANGED <<open_ports, results, yielded, cur>>
       /\ (open_ports' # open_ports \/ results' # results) =>
              /\ pc \in {"loop", "record"}
              /\ pc' \in {"loop", "record"}
              /\ pc' # pc]_vars

\* the loop is between its two appends while a probe is still connecting
C17_Witness ==
    /\ pc = "record"
    /\ Len(open_ports) >= 1
    /\ \E i \in DOMAIN task : task[i] = "connecting"

----------------------------------------------------------------------------
(* Termination of run_scan (checked under LiveSpec) *)

\* C18: for every non-empty port list and every value of threads, zero and
\* negative values included, run_scan eventually returns when every probe
\* completes and no cancellation is signalled, and it returns only after the
\* outcome of every submitted port has been recorded.
C18_EventuallyReturns ==
    /\ Len(ports) > 0 => <>NaturalFinish
    /\ [](pc = "returned" /\ Len(ports) > 0 =>
              /\ Len(results) = Len(ports)
              /\ ResultPorts = Range(ports)
              /\ \A i \in DOMAIN task : task[i] = "done")

\* a scan of several ports called with threads <= 0 has returned: the pool
\* ran them on its one worker
C18_Witness ==
    /\ NaturalFinish
    /\ threads <= 0
    /\ max_workers = 1
    /\ Len(ports) >= 2
    /\ Len(results) = Len(ports)

----------------------------------------------------------------------------
(* The menus: main_menu, input_host, scanner_submenu *)

\* lines 33-37
COMMON_PORTS ==
    <<21, 22, 23, 25, 53, 67, 68, 69, 80, 110, 111, 123,
      135, 139, 143, 161, 389, 443, 445, 465, 587, 631,
      993, 995, 3306, 3389, 5900, 6379, 8080>>

\* what the user types at the host prompt, stripped (line 261)
HostInputs == {"", "q", "quit", "exit", "example.org", "no.such.host"}

\* what socket.gethostbyname does: it returns an address or raises
LookupAnswers == {"192.0.2.1", "raise"}

\* lines 230-236: the address, or None when the lookup raised
resolve_host(answer) == IF answer = "raise" THEN "None" ELSE answer

\* lines 311-326: the range option applied to the stripped input; ok is FALSE
\* on each of its three refusals
range_option(rng) ==
    IF "-" \notin Range(rng) THEN NoParse
    ELSE LET ab == split1(rng, "-")
             a == int(ab[1])
             b == int(ab[2])
         IN  IF ~a.ok \/ ~b.ok THEN NoParse
             ELSE IF a.val < 1 \/ b.val > 65535 \/ a.val > b.val THEN NoParse
             ELSE [ok |-> TRUE, ports |-> [i \in 1..(b.val - a.val + 1) |-> a.val + i - 1]]

MenuInit ==
    /\ ScanIdle
    /\ ParseIdle
    /\ mpc = "main_menu"
    /\ target = NoTarget
    /\ call = NoCall
    /\ rejected = FALSE

\* lines 371-377, choice 1: on to input_host
MainRunScanner ==
    /\ mpc = "main_menu"
    /\ mpc' = "input_host"
    /\ rejected' = FALSE
    /\ UNCHANGED <<target, call>>
    /\ UNCHANGED scanVars
    /\ UNCHANGED parseVars

\* lines 378-395: contact page or an invalid choice, back to the main menu
MainOther ==
    /\ mpc = "main_menu"
    /\ mpc' = "main_menu"
    /\ rejected' = FALSE
    /\ target' = NoTarget
    /\ UNCHANGED call
    /\ UNCHANGED scanVars
    /\ UNCHANGED parseVars

\* lines 389-392: choice 3 leaves the program
MainExit ==
    /\ mpc = "main_menu"
    /\ mpc' = "exit"
    /\ rejected' = FALSE
    /\ UNCHANGED <<target, call>>
    /\ UNCHANGED scanVars
    /\ UNCHANGED parseVars

\* input_host accepting whatever resolve_host returned
InputHostNoCheck ==
    /\ mpc = "input_host"
    /\ \E host \in HostInputs, answer \in LookupAnswers :
        IF host = "" THEN
            /\ UNCHANGED <<mpc, target, rejected>>
        ELSE IF host \in {"q", "quit", "exit"} THEN
            /\ mpc' = "main_menu"
            /\ target' = NoTarget
            /\ rejected' = FALSE
        ELSE
            /\ mpc' = "submenu"
            /\ target' = [host |-> host, ip |-> resolve_host(answer)]
            /\ rejected' = FALSE
    /\ UNCHANGED call
    /\ UNCHANGED scanVars
    /\ UNCHANGED parseVars

\* lines 258-270 and 373-377: an empty line prompts again, q cancels, a host
\* that resolves opens the scanner submenu, any other prompts again
InputHost ==
    /\ mpc = "input_host"
    /\ \E host \in HostInputs, answer \in LookupAnswers :
        IF host = "" THEN
            /\ UNCHANGED <<mpc, target, rejected>>
        ELSE IF host \in {"q", "quit", "exit"} THEN
            /\ mpc' = "main_menu"
            /\ target' = NoTarget
            /\ rejected' = FALSE
        ELSE IF resolve_host(answer) # "None" THEN
            /\ mpc' = "submenu"
            /\ target' = [host |-> host, ip |-> resolve_host(answer)]
            /\ rejected' = FALSE
        ELSE
            /\ mpc' = "input_host"
            /\ target' = NoTarget
            /\ rejected' = TRUE
    /\ UNCHANGED call
    /\ UNCHANGED scanVars
    /\ UNCHANGED parseVars

\* the call run_scan(ip, ports, ...) of lines 297, 307, 333 and 348, after
\* the prompts for threads, timeout and file name
CallRunScan(r) ==
    /\ mpc' = "run_scan"
    /\ call' = [ip |-> target.ip, ports |-> r]
    /\ rejected' = FALSE

\* a refused input: the message, then the submenu again
Refuse ==
    /\ mpc' = "submenu"
    /\ rejected' = TRUE
    /\ UNCHANGED call

\* lines 286-298: all ports, after the confirmation
ChooseAll ==
    /\ mpc = "submenu"
    /\ \E confirm \in {"yes", "no"} :
        IF confirm # "yes"
        THEN /\ mpc' = "submenu"
             /\ rejected' = FALSE
             /\ UNCHANGED call
        ELSE CallRunScan([ok |-> TRUE, ports |-> [i \in 1..65535 |-> i]])
    /\ UNCHANGED target
    /\ UNCHANGED scanVars
    /\ UNCHANGED parseVars

\* lines 299-308: the common ports
ChooseCommon ==
    /\ mpc = "submenu"
    /\ CallRunScan([ok |-> TRUE, ports |-> COMMON_PORTS])
    /\ UNCHANGED target
    /\ UNCHANGED scanVars
    /\ UNCHANGED parseVars

\* lines 309-334: a range of ports
ChooseRange ==
    /\ mpc = "submenu"
    /\ \E typed \in SpecInputs :
        LET r == range_option(strip(typed)) IN
        IF ~r.ok THEN Refuse ELSE CallRunScan(r)
    /\ UNCHANGED target
    /\ UNCHANGED scanVars
    /\ UNCHANGED parseVars

\* lines 335-349 without the test of line 338
ChooseSpecificNoCheck ==
    /\ mpc = "submenu"
    /\ \E typed \in SpecInputs :
        CallRunScan(parse_ports_input(strip(typed)))
    /\ UNCHANGED target
    /\ UNCHANGED scanVars
    /\ UNCHANGED parseVars

\* lines 335-349: specific ports
ChooseSpecific ==
    /\ mpc = "submenu"
    /\ \E typed \in SpecInputs :
        LET r == parse_ports_input(strip(typed)) IN
        IF ~r.ok THEN Refuse ELSE CallRunScan(r)
    /\ UNCHANGED target
    /\ UNCHANGED scanVars
    /\ UNCHANGED parseVars

\* lines 350-351: back; scanner_submenu returns to the main menu loop
ChooseBack ==
    /\ mpc = "submenu"
    /\ mpc' = "main_menu"
    /\ target' = NoTarget
    /\ rejected' = FALSE
    /\ UNCHANGED call
    /\ UNCHANGED scanVars
    /\ UNCHANGED parseVars

\* lines 352-357: exit, or an invalid choice and the submenu again
ChooseExit ==
    /\ mpc = "submenu"
    /\ \E choice \in {"6", "other"} :
        /\ mpc' = IF choice = "6" THEN "exit" ELSE "submenu"
        /\ rejected' = FALSE
    /\ UNCHANGED <<target, call>>
    /\ UNCHANGED scanVars
    /\ UNCHANGED parseVars

\* run_scan is over (it returned or was interrupted) and the submenu is shown
\* again
RunScanOver ==
    /\ mpc = "run_scan"
    /\ mpc' = "submenu"
    /\ call' = NoCall
    /\ rejected' = FALSE
    /\ UNCHANGED target
    /\ UNCHANGED scanVars
    /\ UNCHANGED parseVars

MenuNext ==
    \/ MainRunScanner
    \/ MainOther
    \/ MainExit
    \/ InputHost
    \/ ChooseAll
    \/ ChooseCommon
    \/ ChooseRange
    \/ ChooseSpecific
    \/ ChooseBack
    \/ ChooseExit
    \/ RunScanOver

MenuSpec == MenuInit /\ [][MenuNext]_vars

\* C13: run_scan is only ever called with the address resolve_host returned
\* for the target and with a validated list of ports in 1..65535; an input
\* that was refused (a host that does not resolve, a port specification or
\* range that is rejected) leads back to a prompt without a call.
C13_RunScanOnlyWithValidInput ==
    /\ mpc = "run_scan" =>
           /\ call.ip # "None"
           /\ call.ip = target.ip
           /\ call.ports.ok
           /\ \A i \in DOMAIN call.ports.ports : call.ports.ports[i] \in 1..65535
           /\ IsAscending(call.ports.ports)
    /\ mpc = "submenu" => target.ip # "None"
    /\ rejected => (mpc \in {"input_host", "submenu"} /\ call = NoCall)

\* run_scan was called with ports 1 and 2 for a resolved host
C13_Witness ==
    /\ mpc = "run_scan"
    /\ call = [ip |-> "192.0.2.1", ports |-> [ok |-> TRUE, ports |-> <<1, 2>>]]

====
